---- MODULE Spec2Model ----
(***************************************************************************)
(* Media compressor (compressor.py): the run lock of main(), the loop over *)
(* the intake candidates and the per-file replacement protocol of          *)
(* process_file(), step by step, with the file system it acts on.          *)
(*                                                                         *)
(* Two specifications:                                                     *)
(*   SpecRun   one process performs one run over a library of originals;   *)
(*   SpecLock  NumProcs processes start main() at arbitrary times, again   *)
(*             and again, over an intake whose candidates have no library  *)
(*             match (the actions of the transcoding path are disabled     *)
(*             there and are left out of NextLock).                        *)
(***************************************************************************)
EXTENDS Integers, Sequences, FiniteSets, TLC

\* ---------------------------------------------------------------- bounds
NumProcs == 2                \* processes that may run main()
NumCands == 2                \* video files in the intake directory

Procs == 1..NumProcs
Cands == 1..NumCands
Inodes == 1..NumProcs        \* lock-file inodes in use at any one time
Runner == {1}                \* the single process of SpecRun

\* ------------------------------------------------- values of the engine
None == -1                   \* Python None for a duration
NoCodec == "none"            \* Python None for a codec

\* raw codec names as ffprobe prints them (stdout, before strip().lower())
RawCodecs == {"h264", "hevc", "HEVC", "h265"}
\* durations ffprobe reports for an original / for a compressed file
OrigDurations == {None, 0, 100}
CompDurations == {None, 0, -5, 105, 106}
\* st_size of an original / of a compressed file (same unit)
OrigSizes == {0, 10}
CompSizes == {8, 9}
\* outcome of the 10 second decode test: exit code, stderr text, exception
DecodeResults ==
    { [ran |-> TRUE, rc |-> 0, err |-> FALSE, raised |-> FALSE],
      [ran |-> TRUE, rc |-> 1, err |-> FALSE, raised |-> FALSE],
      [ran |-> TRUE, rc |-> 0, err |-> TRUE,  raised |-> FALSE],
      [ran |-> TRUE, rc |-> 0, err |-> FALSE, raised |-> TRUE] }
NoResult == [ran |-> FALSE, rc |-> 0, err |-> FALSE, raised |-> FALSE]

\* ------------------------------------------------------ program constants
DurationTolerance == 5       \* abs(compressed - original) > 5
MinRatioNum == 4             \* min_compression_ratio 0.8 = 4/5
MinRatioDen == 5
TargetCodecs == {"hevc", "h265"}

\* stats['error'] values
ErrNone == "none"
ErrNoMatch == "No matching media file"
ErrAlready == "Already HEVC"
ErrCompress == "Compression failed"
ErrNoDuration == "Compressed file has no duration"
ErrMismatch == "Duration mismatch (file truncated)"
ErrCodec == "Wrong codec"
ErrDecode == "Decode test failed"
ErrDecodeExc == "Decode test error"
ErrRatio == "Insufficient compression"
ErrReplace == "Failed to replace"

VARIABLES
    pc,         \* [Procs -> position in main()/process_file()]
    pending,    \* [Procs -> what leaves main(): "none","return","exc","int"]
    exitCode,   \* [Procs -> exit code of the last run, -1 before any exit]
    fd,         \* [Procs -> inode lock_fd is open on, 0 = not open]
    held,       \* [Procs -> lock_fd holds the exclusive flock]
    lockPath,   \* inode /tmp/compressor.lock names, 0 = no such file
    lockText,   \* [Inodes -> pid written in the file, 0 = empty]
    videos,     \* [Procs -> downloads_videos]
    results,    \* [Procs -> results, each projected to file and success]
    loc,        \* [Procs -> locals of process_file]
    calls,      \* [Procs -> engine invocations of the current process_file]
    notes,      \* [Procs -> send_discord_notification calls of the run]
    lib,        \* [Cands -> content at the library path of that name]
    tmp,        \* [Cands -> content at the hidden temporary path]
    dl,         \* [Cands -> the intake file exists]
    dry_run     \* CONFIG['dry_run']

lockVars == <<fd, held, lockPath, lockText>>
fsVars == <<lib, tmp, dl>>
runVars == <<videos, results, loc, calls, notes>>
vars == <<pc, pending, exitCode, fd, held, lockPath, lockText,
          videos, results, loc, calls, notes, lib, tmp, dl, dry_run>>

\* ------------------------------------------------------------- helpers
NoStats == [success |-> FALSE, original_size_gb |-> 0,
            compressed_size_gb |-> 0, space_saved_gb |-> 0, error |-> ErrNone]

NoLoc == [cur |-> 0, media |-> FALSE, original_size |-> 0,
          video_codec |-> NoCodec, original_duration |-> None,
          compressed |-> FALSE, compressed_duration |-> None,
          compressed_codec |-> NoCodec, result |-> NoResult,
          compressed_size |-> 0, stats |-> NoStats]

Abs(x) == IF x < 0 THEN -x ELSE x

\* str.lower() on the codec names the engine prints
Lower(s) == CASE s = "HEVC" -> "hevc"
              [] s = "H265" -> "h265"
              [] s = "H264" -> "h264"
              [] OTHER -> s

\* the candidates of a set as a list, in directory order
RECURSIVE SetToSeq(_)
SetToSeq(S) == IF S = {} THEN <<>>
               ELSE LET m == CHOOSE x \in S : \A y \in S : x <= y
                    IN <<m>> \o SetToSeq(S \ {m})

\* an inode no path and no descriptor refers to
FreeInodes == {i \in Inodes : lockPath # i /\ \A q \in Procs : fd[q] # i}
NewInode == CHOOSE i \in FreeInodes : \A j \in FreeInodes : i <= j

Init ==
    /\ pc = [p \in Procs |-> "start"]
    /\ pending = [p \in Procs |-> "none"]
    /\ exitCode = [p \in Procs |-> -1]
    /\ fd = [p \in Procs |-> 0]
    /\ held = [p \in Procs |-> FALSE]
    /\ lockPath = 0
    /\ lockText = [i \in Inodes |-> 0]
    /\ videos = [p \in Procs |-> <<>>]
    /\ results = [p \in Procs |-> <<>>]
    /\ loc = [p \in Procs |-> NoLoc]
    /\ calls = [p \in Procs |-> <<>>]
    /\ notes = [p \in Procs |-> <<>>]
    /\ lib \in [Cands -> {"absent", "orig"}]
    /\ tmp = [c \in Cands |-> "absent"]
    /\ \E n \in 0..NumCands : dl = [c \in Cands |-> c <= n]
    /\ dry_run \in BOOLEAN

\* ------------------------------------------------- main(): acquiring
\* line 395: open(lock_file, 'w') creates the file or truncates it
OpenLock(p) ==
    /\ pc[p] = "start"
    /\ IF lockPath = 0
         THEN /\ lockPath' = NewInode
              /\ fd' = [fd EXCEPT ![p] = NewInode]
              /\ lockText' = [lockText EXCEPT ![NewInode] = 0]
         ELSE /\ fd' = [fd EXCEPT ![p] = lockPath]
              /\ lockText' = [lockText EXCEPT ![lockPath] = 0]
              /\ UNCHANGED lockPath
    /\ pc' = [pc EXCEPT ![p] = "flock"]
    /\ UNCHANGED <<pending, exitCode, held, runVars, fsVars, dry_run>>

\* lines 395, 399: open raises OSError (IOError): no permission on the
\* lock file, no space; handled as if the lock were held
OpenLockError(p) ==
    /\ pc[p] = "start"
    /\ pc' = [pc EXCEPT ![p] = "lockheld"]
    /\ UNCHANGED <<pending, exitCode, lockVars, runVars, fsVars, dry_run>>

\* some other descriptor holds the flock on the inode p has open
Locked(p) == \E q \in Procs : q # p /\ held[q] /\ fd[q] = fd[p]

\* line 396: flock(LOCK_EX | LOCK_NB) succeeds
FlockAcquire(p) ==
    /\ pc[p] = "flock"
    /\ ~Locked(p)
    /\ held' = [held EXCEPT ![p] = TRUE]
    /\ pc' = [pc EXCEPT ![p] = "stamp"]
    /\ UNCHANGED <<pending, exitCode, fd, lockPath, lockText, runVars,
                   fsVars, dry_run>>

\* lines 396, 399: flock raises IOError, the lock is held elsewhere
FlockBusy(p) ==
    /\ pc[p] = "flock"
    /\ Locked(p)
    /\ pc' = [pc EXCEPT ![p] = "lockheld"]
    /\ UNCHANGED <<pending, exitCode, lockVars, runVars, fsVars, dry_run>>

\* what the end of the process does to its descriptor
CloseFd(p) ==
    /\ fd' = [fd EXCEPT ![p] = 0]
    /\ held' = [held EXCEPT ![p] = FALSE]

\* lines 400-401: log and sys.exit(0)
LockHeldExit(p) ==
    /\ pc[p] = "lockheld"
    /\ CloseFd(p)
    /\ pc' = [pc EXCEPT ![p] = "exited"]
    /\ exitCode' = [exitCode EXCEPT ![p] = 0]
    /\ UNCHANGED <<pending, lockPath, lockText, runVars, fsVars, dry_run>>

\* lines 397-398: write pid and time, flush
WriteStamp(p) ==
    /\ pc[p] = "stamp"
    /\ lockText' = [lockText EXCEPT ![fd[p]] = p]
    /\ pc' = [pc EXCEPT ![p] = "find"]
    /\ UNCHANGED <<pending, exitCode, fd, held, lockPath, runVars, fsVars,
                   dry_run>>

\* lines 397-399: write or flush raises OSError with the lock taken;
\* handled as if the lock were held
WriteStampError(p) ==
    /\ pc[p] = "stamp"
    /\ pc' = [pc EXCEPT ![p] = "lockheld"]
    /\ UNCHANGED <<pending, exitCode, lockVars, runVars, fsVars, dry_run>>

\* ------------------------------------------------- main(): the run body
\* an exception leaves the run body (and the frame of process_file, if it
\* was raised there): the finally clause runs next
Raise(p) ==
    /\ pc' = [pc EXCEPT ![p] = "fin_unlock"]
    /\ pending' = [pending EXCEPT ![p] = "exc"]
    /\ loc' = [loc EXCEPT ![p] = NoLoc]
    /\ calls' = [calls EXCEPT ![p] = <<>>]

\* lines 61-72, 411-417: find_video_files; none found: notify and return
FindVideos(p) ==
    /\ pc[p] = "find"
    /\ LET found == SetToSeq({c \in Cands : dl[c]})
       IN /\ videos' = [videos EXCEPT ![p] = found]
          /\ IF found = <<>>
               THEN /\ notes' = [notes EXCEPT ![p] = Append(@, "novideos")]
                    /\ pc' = [pc EXCEPT ![p] = "fin_unlock"]
                    /\ pending' = [pending EXCEPT ![p] = "return"]
               ELSE /\ pc' = [pc EXCEPT ![p] = "loop"]
                    /\ UNCHANGED <<notes, pending>>
    /\ UNCHANGED <<exitCode, lockVars, results, loc, calls, fsVars, dry_run>>

\* lines 64-70, 411: the directory walk raises OSError
FindVideosError(p) ==
    /\ pc[p] = "find"
    /\ Raise(p)
    /\ UNCHANGED <<exitCode, lockVars, videos, results, notes, fsVars,
                   dry_run>>

\* lines 424-426, 219-226: next candidate, process_file starts
LoopNext(p) ==
    /\ pc[p] = "loop"
    /\ Len(results[p]) < Len(videos[p])
    /\ loc' = [loc EXCEPT ![p] =
                 [NoLoc EXCEPT !.cur = videos[p][Len(results[p]) + 1]]]
    /\ calls' = [calls EXCEPT ![p] = <<>>]
    /\ pc' = [pc EXCEPT ![p] = "match"]
    /\ UNCHANGED <<pending, exitCode, lockVars, videos, results, notes,
                   fsVars, dry_run>>

\* lines 427-431: process_file returned, results.append(stats)
Collect(p) ==
    /\ pc[p] = "collect"
    /\ results' = [results EXCEPT ![p] =
                     Append(@, [file |-> loc[p].cur,
                                success |-> loc[p].stats.success])]
    /\ loc' = [loc EXCEPT ![p] = NoLoc]
    /\ calls' = [calls EXCEPT ![p] = <<>>]
    /\ pc' = [pc EXCEPT ![p] = "loop"]
    /\ UNCHANGED <<pending, exitCode, lockVars, videos, notes, fsVars,
                   dry_run>>

\* successful_compressions of lines 422, 429-430
Successful(rs) == Cardinality({i \in 1..Len(rs) : rs[i].success})

\* lines 433-465: the loop is over; summary, notification, Plex scan
Summary(p) ==
    /\ pc[p] = "loop"
    /\ Len(results[p]) = Len(videos[p])
    /\ notes' = [notes EXCEPT ![p] =
                   IF Successful(results[p]) > 0
                     THEN Append(@, "summary") ELSE @]
    /\ pc' = [pc EXCEPT ![p] = "fin_unlock"]
    /\ pending' = [pending EXCEPT ![p] = "none"]
    /\ UNCHANGED <<exitCode, lockVars, videos, results, loc, calls, fsVars,
                   dry_run>>

\* ------------------------------------------------- main(): finally
\* line 471: flock(LOCK_UN)
FinallyUnlock(p) ==
    /\ pc[p] = "fin_unlock"
    /\ held' = [held EXCEPT ![p] = FALSE]
    /\ pc' = [pc EXCEPT ![p] = "fin_close"]
    /\ UNCHANGED <<pending, exitCode, fd, lockPath, lockText, runVars,
                   fsVars, dry_run>>

\* line 472: lock_fd.close()
FinallyClose(p) ==
    /\ pc[p] = "fin_close"
    /\ fd' = [fd EXCEPT ![p] = 0]
    /\ pc' = [pc EXCEPT ![p] = "fin_unlink"]
    /\ UNCHANGED <<pending, exitCode, held, lockPath, lockText, runVars,
                   fsVars, dry_run>>

\* lines 473-475: lock_file.unlink(); a missing file is logged and ignored
FinallyUnlink(p) ==
    /\ pc[p] = "fin_unlink"
    /\ lockPath' = 0
    /\ pc' = [pc EXCEPT ![p] = "toplevel"]
    /\ UNCHANGED <<pending, exitCode, fd, held, lockText, runVars, fsVars,
                   dry_run>>

\* lines 478-487: main() returned or raised; the process ends and its
\* memory is gone
Terminate(p) ==
    /\ pc[p] = "toplevel"
    /\ CloseFd(p)
    /\ notes' = [notes EXCEPT ![p] =
                   IF pending[p] = "exc" THEN Append(@, "fatal") ELSE @]
    /\ exitCode' = [exitCode EXCEPT ![p] =
                      IF pending[p] \in {"exc", "int"} THEN 1 ELSE 0]
    /\ pc' = [pc EXCEPT ![p] = "exited"]
    /\ pending' = [pending EXCEPT ![p] = "none"]
    /\ videos' = [videos EXCEPT ![p] = <<>>]
    /\ results' = [results EXCEPT ![p] = <<>>]
    /\ UNCHANGED <<lockPath, lockText, loc, calls, fsVars, dry_run>>

\* positions of main() inside the second try block (lines 403-465)
BodyPcs == {"find", "loop", "match", "collect", "stat", "codec", "dur",
            "transcode", "transcoding", "hung", "cleanup", "vdur", "vcodec",
            "decode", "size", "discard", "swap_unlink", "swap_rename",
            "swap_dl", "swap_notify"}
\* positions outside it: lines 394-401 and the finally clause
UnguardedPcs == {"flock", "stamp", "lockheld",
                 "fin_unlock", "fin_close", "fin_unlink"}

\* KeyboardInterrupt: inside the try block the finally clause runs,
\* elsewhere it propagates straight to line 481
Interrupt(p) ==
    /\ pc[p] \in BodyPcs \cup UnguardedPcs
    /\ pending' = [pending EXCEPT ![p] = "int"]
    /\ pc' = [pc EXCEPT ![p] =
                IF pc[p] \in BodyPcs THEN "fin_unlock" ELSE "toplevel"]
    /\ loc' = [loc EXCEPT ![p] = NoLoc]
    /\ calls' = [calls EXCEPT ![p] = <<>>]
    /\ UNCHANGED <<exitCode, lockVars, videos, results, notes, fsVars,
                   dry_run>>

\* the process is killed: the OS closes its descriptor, files stay
Kill(p) ==
    /\ pc[p] \in BodyPcs \cup UnguardedPcs \cup {"toplevel"}
    /\ CloseFd(p)
    /\ pc' = [pc EXCEPT ![p] = "killed"]
    /\ pending' = [pending EXCEPT ![p] = "none"]
    /\ videos' = [videos EXCEPT ![p] = <<>>]
    /\ results' = [results EXCEPT ![p] = <<>>]
    /\ loc' = [loc EXCEPT ![p] = NoLoc]
    /\ calls' = [calls EXCEPT ![p] = <<>>]
    /\ UNCHANGED <<exitCode, lockPath, lockText, notes, fsVars, dry_run>>

\* the scheduler starts main() again in a new process
Restart(p) ==
    /\ pc[p] \in {"exited", "killed"}
    /\ pc' = [pc EXCEPT ![p] = "start"]
    /\ exitCode' = [exitCode EXCEPT ![p] = -1]
    /\ notes' = [notes EXCEPT ![p] = <<>>]
    /\ UNCHANGED <<pending, lockVars, videos, results, loc, calls, fsVars,
                   dry_run>>

\* ------------------------------------------------- process_file()
\* an unmatched candidate is removed from the intake area
FindMatchMiss_Purges(p) ==
    /\ pc[p] = "match"
    /\ lib[loc[p].cur] = "absent"
    /\ loc' = [loc EXCEPT ![p].stats.error = ErrNoMatch]
    /\ dl' = [dl EXCEPT ![loc[p].cur] = FALSE]
    /\ pc' = [pc EXCEPT ![p] = "collect"]
    /\ UNCHANGED <<pending, exitCode, lockVars, videos, results, calls,
                   notes, lib, tmp, dry_run>>

\* lines 75-89, 229-233: no file of that name in the library
FindMatchMiss(p) ==
    /\ pc[p] = "match"
    /\ lib[loc[p].cur] = "absent"
    /\ loc' = [loc EXCEPT ![p].stats.error = ErrNoMatch]
    /\ pc' = [pc EXCEPT ![p] = "collect"]
    /\ UNCHANGED <<pending, exitCode, lockVars, videos, results, calls,
                   notes, fsVars, dry_run>>

\* lines 75-89, 229-230: first file of that name under the library roots
FindMatchHit(p) ==
    /\ pc[p] = "match"
    /\ lib[loc[p].cur] # "absent"
    /\ loc' = [loc EXCEPT ![p].media = TRUE]
    /\ pc' = [pc EXCEPT ![p] = "stat"]
    /\ UNCHANGED <<pending, exitCode, lockVars, videos, results, calls,
                   notes, fsVars, dry_run>>

\* lines 92-94, 235-236: size of the matched file
StatOriginal(p) ==
    /\ pc[p] = "stat"
    /\ \E s \in OrigSizes :
         loc' = [loc EXCEPT ![p].original_size = s,
                            ![p].stats.original_size_gb = s]
    /\ pc' = [pc EXCEPT ![p] = "codec"]
    /\ UNCHANGED <<pending, exitCode, lockVars, videos, results, calls,
                   notes, fsVars, dry_run>>

\* lines 94, 235: stat() raises OSError, nothing catches it
StatOriginalError(p) ==
    /\ pc[p] = "stat"
    /\ Raise(p)
    /\ UNCHANGED <<exitCode, lockVars, videos, results, notes, fsVars,
                   dry_run>>

\* the codec name is returned as ffprobe printed it, not lower-cased
get_video_codec_Raw(out) == IF out.rc = 0 THEN out.stdout ELSE NoCodec

\* lines 97-113: codec name, lower-cased; None on a non-zero exit or timeout
get_video_codec(out) == IF out.rc = 0 THEN Lower(out.stdout) ELSE NoCodec

\* line 243 / 292: the codec is one of the target names
IsTarget(codec) == codec \in TargetCodecs

\* lines 242-246: skip a file that is already HEVC
ProbeCodec(p) ==
    /\ pc[p] = "codec"
    /\ \E out \in [rc : {0, 1}, stdout : RawCodecs] :
         LET codec == get_video_codec(out)
         IN IF IsTarget(codec)
              THEN /\ loc' = [loc EXCEPT ![p].video_codec = codec,
                                         ![p].stats.error = ErrAlready]
                   /\ pc' = [pc EXCEPT ![p] = "collect"]
              ELSE /\ loc' = [loc EXCEPT ![p].video_codec = codec]
                   /\ pc' = [pc EXCEPT ![p] = "dur"]
    /\ calls' = [calls EXCEPT ![p] = Append(@, "codec:media")]
    /\ UNCHANGED <<pending, exitCode, lockVars, videos, results, notes,
                   fsVars, dry_run>>

\* the made-up size is the whole original size
Half_Whole(size) == size

\* original_size * 0.5 (sizes are even numbers of the unit)
Half(size) == size \div 2

\* lines 249-261: original duration; in dry-run mode the outcome is made up
ProbeDuration(p) ==
    /\ pc[p] = "dur"
    /\ \E d \in OrigDurations :
         IF dry_run
           THEN /\ loc' = [loc EXCEPT
                     ![p].original_duration = d,
                     ![p].stats.success = TRUE,
                     ![p].stats.compressed_size_gb = Half(loc[p].original_size),
                     ![p].stats.space_saved_gb = Half(loc[p].original_size)]
                /\ pc' = [pc EXCEPT ![p] = "collect"]
           ELSE /\ loc' = [loc EXCEPT ![p].original_duration = d]
                /\ pc' = [pc EXCEPT ![p] = "transcode"]
    /\ calls' = [calls EXCEPT ![p] = Append(@, "duration:media")]
    /\ UNCHANGED <<pending, exitCode, lockVars, videos, results, notes,
                   fsVars, dry_run>>

\* lines 146-174: compress_video probes the duration and starts ffmpeg,
\* which creates or truncates the temporary file
TranscodeStart(p) ==
    /\ pc[p] = "transcode"
    /\ calls' = [calls EXCEPT ![p] = @ \o <<"duration:media", "transcode">>]
    /\ tmp' = [tmp EXCEPT ![loc[p].cur] = "partial"]
    /\ pc' = [pc EXCEPT ![p] = "transcoding"]
    /\ UNCHANGED <<pending, exitCode, lockVars, videos, results, loc,
                   notes, lib, dl, dry_run>>

\* lines 169, 209-211, 264-265: Popen raises, compress_video returns False
TranscodeSpawnError(p) ==
    /\ pc[p] = "transcode"
    /\ calls' = [calls EXCEPT ![p] = @ \o <<"duration:media", "transcode">>]
    /\ loc' = [loc EXCEPT ![p].stats.error = ErrCompress]
    /\ pc' = [pc EXCEPT ![p] = "cleanup"]
    /\ UNCHANGED <<pending, exitCode, lockVars, videos, results, notes,
                   fsVars, dry_run>>

\* lines 177-208, 264: ffmpeg exits with code 0
TranscodeOk(p) ==
    /\ pc[p] = "transcoding"
    /\ tmp' = [tmp EXCEPT ![loc[p].cur] = "comp"]
    /\ loc' = [loc EXCEPT ![p].compressed = TRUE]
    /\ pc' = [pc EXCEPT ![p] = "vdur"]
    /\ UNCHANGED <<pending, exitCode, lockVars, videos, results, calls,
                   notes, lib, dl, dry_run>>

\* lines 201-204, 264-265: ffmpeg exits with a non-zero code
TranscodeFail(p) ==
    /\ pc[p] = "transcoding"
    /\ loc' = [loc EXCEPT ![p].stats.error = ErrCompress]
    /\ pc' = [pc EXCEPT ![p] = "cleanup"]
    /\ UNCHANGED <<pending, exitCode, lockVars, videos, results, calls,
                   notes, fsVars, dry_run>>

\* lines 177, 199: ffmpeg never exits and never closes stderr; the read
\* loop and process.wait() have no timeout and block for good
TranscodeHang(p) ==
    /\ pc[p] = "transcoding"
    /\ pc' = [pc EXCEPT ![p] = "hung"]
    /\ UNCHANGED <<pending, exitCode, lockVars, runVars, fsVars, dry_run>>

\* Cleanup without the unlink: the temporary file is left behind
Cleanup_KeepsTemp(p) ==
    /\ pc[p] = "cleanup"
    /\ pc' = [pc EXCEPT ![p] = "collect"]
    /\ UNCHANGED <<pending, exitCode, lockVars, runVars, fsVars, dry_run>>

\* lines 266-268, 276-278, 286-288, 295-297, 311-313, 317-319, 362-364:
\* if temp_output.exists(): temp_output.unlink(); return stats
Cleanup(p) ==
    /\ pc[p] = "cleanup"
    /\ tmp' = [tmp EXCEPT ![loc[p].cur] = "absent"]
    /\ pc' = [pc EXCEPT ![p] = "collect"]
    /\ UNCHANGED <<pending, exitCode, lockVars, runVars, lib, dl, dry_run>>

\* the same lines: unlink() of the temporary file raises OSError
CleanupError(p) ==
    /\ pc[p] = "cleanup"
    /\ tmp[loc[p].cur] # "absent"
    /\ Raise(p)
    /\ UNCHANGED <<exitCode, lockVars, videos, results, notes, fsVars,
                   dry_run>>

\* line 273 / 250: `not duration` holds of None and of 0.0
NoDuration(d) == d = None \/ d = 0

\* line 280: durations differ by more than the tolerance
DurationMismatch(original, compressed) ==
    /\ ~NoDuration(original)
    /\ Abs(compressed - original) > DurationTolerance

\* lines 272-288: duration of the compressed file
VerifyDuration(p) ==
    /\ pc[p] = "vdur"
    /\ \E d \in CompDurations :
         /\ loc' = [loc EXCEPT
               ![p].compressed_duration = d,
               ![p].stats.error =
                  IF NoDuration(d) THEN ErrNoDuration
                  ELSE IF DurationMismatch(loc[p].original_duration, d)
                         THEN ErrMismatch ELSE @]
         /\ pc' = [pc EXCEPT ![p] =
               IF NoDuration(d) \/ DurationMismatch(loc[p].original_duration, d)
                 THEN "cleanup" ELSE "vcodec"]
    /\ calls' = [calls EXCEPT ![p] = Append(@, "duration:temp")]
    /\ UNCHANGED <<pending, exitCode, lockVars, videos, results, notes,
                   fsVars, dry_run>>

\* lines 291-297: codec of the compressed file
VerifyCodec(p) ==
    /\ pc[p] = "vcodec"
    /\ \E out \in [rc : {0, 1}, stdout : RawCodecs] :
         LET codec == get_video_codec(out)
         IN IF IsTarget(codec)
              THEN /\ loc' = [loc EXCEPT ![p].compressed_codec = codec]
                   /\ pc' = [pc EXCEPT ![p] = "decode"]
              ELSE /\ loc' = [loc EXCEPT ![p].compressed_codec = codec,
                                         ![p].stats.error = ErrCodec]
                   /\ pc' = [pc EXCEPT ![p] = "cleanup"]
    /\ calls' = [calls EXCEPT ![p] = Append(@, "codec:temp")]
    /\ UNCHANGED <<pending, exitCode, lockVars, videos, results, notes,
                   fsVars, dry_run>>

\* line 308: the decode test failed
DecodeFailed(r) == r.rc # 0 \/ r.err

\* lines 300-319: decode the first 10 seconds to a null sink
DecodeTest(p) ==
    /\ pc[p] = "decode"
    /\ \E r \in DecodeResults :
         /\ loc' = [loc EXCEPT
               ![p].result = r,
               ![p].stats.error =
                  IF r.raised THEN ErrDecodeExc
                  ELSE IF DecodeFailed(r) THEN ErrDecode ELSE @]
         /\ pc' = [pc EXCEPT ![p] =
               IF r.raised \/ DecodeFailed(r) THEN "cleanup" ELSE "size"]
    /\ calls' = [calls EXCEPT ![p] = Append(@, "decode:temp")]
    /\ UNCHANGED <<pending, exitCode, lockVars, videos, results, notes,
                   fsVars, dry_run>>

\* RatioExceeds with the threshold lost: only growth is refused
RatioExceeds_NoThreshold(compressed, original) ==
    compressed * MinRatioDen > original * MinRatioDen

\* lines 326-327: compressed_size / original_size > 0.8
RatioExceeds(compressed, original) ==
    compressed * MinRatioDen > original * MinRatioNum

\* lines 321-327: size of the compressed file and the ratio; a zero-byte
\* original makes the division raise ZeroDivisionError
StatCompressed(p) ==
    /\ pc[p] = "size"
    /\ \E s \in CompSizes :
         IF loc[p].original_size = 0
           THEN Raise(p)
           ELSE /\ loc' = [loc EXCEPT
                     ![p].compressed_size = s,
                     ![p].stats.compressed_size_gb = s,
                     ![p].stats.space_saved_gb = loc[p].original_size - s]
                /\ pc' = [pc EXCEPT ![p] =
                     IF RatioExceeds(s, loc[p].original_size)
                       THEN "discard" ELSE "swap_unlink"]
                /\ UNCHANGED <<pending, calls>>
    /\ UNCHANGED <<exitCode, lockVars, videos, results, notes, fsVars,
                   dry_run>>

\* lines 94, 321: stat() of the temporary file raises OSError
StatCompressedError(p) ==
    /\ pc[p] = "size"
    /\ Raise(p)
    /\ UNCHANGED <<exitCode, lockVars, videos, results, notes, fsVars,
                   dry_run>>

\* lines 332-334: the gain is too small, the temporary file is removed
DiscardTemp(p) ==
    /\ pc[p] = "discard"
    /\ tmp' = [tmp EXCEPT ![loc[p].cur] = "absent"]
    /\ loc' = [loc EXCEPT ![p].stats.error = ErrRatio]
    /\ pc' = [pc EXCEPT ![p] = "collect"]
    /\ UNCHANGED <<pending, exitCode, lockVars, videos, results, calls,
                   notes, lib, dl, dry_run>>

\* line 332: unlink() of the temporary file raises OSError
DiscardTempError(p) ==
    /\ pc[p] = "discard"
    /\ Raise(p)
    /\ UNCHANGED <<exitCode, lockVars, videos, results, notes, fsVars,
                   dry_run>>

\* lines 359-361: an exception in the swap is caught, the error recorded
SwapCaught(p) ==
    /\ loc' = [loc EXCEPT ![p].stats.error = ErrReplace]
    /\ pc' = [pc EXCEPT ![p] = "cleanup"]

\* the intake file is deleted together with the original
SwapUnlink_DropsIntake(p) ==
    /\ pc[p] = "swap_unlink"
    /\ lib' = [lib EXCEPT ![loc[p].cur] = "absent"]
    /\ dl' = [dl EXCEPT ![loc[p].cur] = FALSE]
    /\ pc' = [pc EXCEPT ![p] = "swap_rename"]
    /\ UNCHANGED <<pending, exitCode, lockVars, runVars, tmp, dry_run>>

\* line 341: media_file.unlink()
SwapUnlink(p) ==
    /\ pc[p] = "swap_unlink"
    /\ lib' = [lib EXCEPT ![loc[p].cur] = "absent"]
    /\ pc' = [pc EXCEPT ![p] = "swap_rename"]
    /\ UNCHANGED <<pending, exitCode, lockVars, runVars, tmp, dl, dry_run>>

\* lines 341, 359-361: the unlink raises
SwapUnlinkError(p) ==
    /\ pc[p] = "swap_unlink"
    /\ SwapCaught(p)
    /\ UNCHANGED <<pending, exitCode, lockVars, videos, results, calls,
                   notes, fsVars, dry_run>>

\* line 342: temp_output.rename(media_file)
SwapRename(p) ==
    /\ pc[p] = "swap_rename"
    /\ lib' = [lib EXCEPT ![loc[p].cur] = tmp[loc[p].cur]]
    /\ tmp' = [tmp EXCEPT ![loc[p].cur] = "absent"]
    /\ pc' = [pc EXCEPT ![p] = "swap_dl"]
    /\ UNCHANGED <<pending, exitCode, lockVars, runVars, dl, dry_run>>

\* lines 342, 359-361: the rename raises
SwapRenameError(p) ==
    /\ pc[p] = "swap_rename"
    /\ SwapCaught(p)
    /\ UNCHANGED <<pending, exitCode, lockVars, videos, results, calls,
                   notes, fsVars, dry_run>>

\* SwapDeleteCandidate without the unlink of the intake file
SwapDeleteCandidate_KeepsIntake(p) ==
    /\ pc[p] = "swap_dl"
    /\ loc' = [loc EXCEPT ![p].stats.success = TRUE]
    /\ pc' = [pc EXCEPT ![p] = "swap_notify"]
    /\ UNCHANGED <<pending, exitCode, lockVars, videos, results, calls,
                   notes, fsVars, dry_run>>

\* lines 345-350: remove the intake file, record the success
SwapDeleteCandidate(p) ==
    /\ pc[p] = "swap_dl"
    /\ dl' = [dl EXCEPT ![loc[p].cur] = FALSE]
    /\ loc' = [loc EXCEPT ![p].stats.success = TRUE]
    /\ pc' = [pc EXCEPT ![p] = "swap_notify"]
    /\ UNCHANGED <<pending, exitCode, lockVars, videos, results, calls,
                   notes, lib, tmp, dry_run>>

\* lines 346, 359-361: the unlink of the intake file raises
SwapDeleteCandidateError(p) ==
    /\ pc[p] = "swap_dl"
    /\ dl[loc[p].cur]
    /\ SwapCaught(p)
    /\ UNCHANGED <<pending, exitCode, lockVars, videos, results, calls,
                   notes, fsVars, dry_run>>

\* lines 353-357, 366: per-file notification, return stats
SwapNotify(p) ==
    /\ pc[p] = "swap_notify"
    /\ notes' = [notes EXCEPT ![p] = Append(@, "file")]
    /\ pc' = [pc EXCEPT ![p] = "collect"]
    /\ UNCHANGED <<pending, exitCode, lockVars, videos, results, loc, calls,
                   fsVars, dry_run>>

\* -------------------------------------------------------- specifications
InitLock ==
    /\ Init
    /\ ~dry_run
    /\ \A c \in Cands : lib[c] = "absent" /\ (dl[c] => c = 1)

NextLock ==
    \E p \in Procs :
        \/ OpenLock(p) \/ OpenLockError(p)
        \/ FlockAcquire(p) \/ FlockBusy(p) \/ LockHeldExit(p)
        \/ WriteStamp(p) \/ WriteStampError(p)
        \/ FindVideos(p) \/ FindVideosError(p)
        \/ LoopNext(p) \/ FindMatchMiss(p) \/ Collect(p) \/ Summary(p)
        \/ FinallyUnlock(p) \/ FinallyClose(p) \/ FinallyUnlink(p)
        \/ Terminate(p) \/ Interrupt(p) \/ Kill(p) \/ Restart(p)

SpecLock == InitLock /\ [][NextLock]_vars

\* a run of another process that holds the lock and is in its body
InitHeld ==
    /\ pc = [p \in Procs |-> IF p = 2 THEN "find" ELSE "start"]
    /\ fd = [p \in Procs |-> IF p = 2 THEN 1 ELSE 0]
    /\ held = [p \in Procs |-> p = 2]
    /\ lockPath = 1
    /\ lockText = [i \in Inodes |-> IF i = 1 THEN 2 ELSE 0]

\* the run of SpecRun starts alone or while another run holds the lock
InitRun ==
    \/ Init
    \/ /\ InitHeld
       /\ pending = [p \in Procs |-> "none"]
       /\ exitCode = [p \in Procs |-> -1]
       /\ videos = [p \in Procs |-> <<>>]
       /\ results = [p \in Procs |-> <<>>]
       /\ loc = [p \in Procs |-> NoLoc]
       /\ calls = [p \in Procs |-> <<>>]
       /\ notes = [p \in Procs |-> <<>>]
       /\ lib \in [Cands -> {"absent", "orig"}]
       /\ tmp = [c \in Cands |-> "absent"]
       /\ \E n \in 0..NumCands : dl = [c \in Cands |-> c <= n]
       /\ dry_run \in BOOLEAN

\* the steps the program takes by itself: no signal, no kill
ProgramStep(p) ==
    \/ OpenLock(p) \/ OpenLockError(p)
    \/ FlockAcquire(p) \/ FlockBusy(p) \/ LockHeldExit(p)
    \/ WriteStamp(p) \/ WriteStampError(p)
    \/ FindVideos(p) \/ FindVideosError(p)
    \/ LoopNext(p) \/ Collect(p) \/ Summary(p)
    \/ FindMatchMiss(p) \/ FindMatchHit(p)
    \/ StatOriginal(p) \/ StatOriginalError(p)
    \/ ProbeCodec(p) \/ ProbeDuration(p)
    \/ TranscodeStart(p) \/ TranscodeSpawnError(p)
    \/ TranscodeOk(p) \/ TranscodeFail(p) \/ TranscodeHang(p)
    \/ Cleanup(p) \/ CleanupError(p)
    \/ VerifyDuration(p) \/ VerifyCodec(p) \/ DecodeTest(p)
    \/ StatCompressed(p) \/ StatCompressedError(p)
    \/ DiscardTemp(p) \/ DiscardTempError(p)
    \/ SwapUnlink(p) \/ SwapUnlinkError(p)
    \/ SwapRename(p) \/ SwapRenameError(p)
    \/ SwapDeleteCandidate(p) \/ SwapDeleteCandidateError(p)
    \/ SwapNotify(p)
    \/ FinallyUnlock(p) \/ FinallyClose(p) \/ FinallyUnlink(p)
    \/ Terminate(p)

NextRun ==
    \E p \in Runner :
        \/ OpenLock(p) \/ OpenLockError(p)
        \/ FlockAcquire(p) \/ FlockBusy(p) \/ LockHeldExit(p)
        \/ WriteStamp(p) \/ WriteStampError(p)
        \/ FindVideos(p) \/ FindVideosError(p)
        \/ LoopNext(p) \/ Collect(p) \/ Summary(p)
        \/ FindMatchMiss(p) \/ FindMatchHit(p)
        \/ StatOriginal(p) \/ StatOriginalError(p)
        \/ ProbeCodec(p) \/ ProbeDuration(p)
        \/ TranscodeStart(p) \/ TranscodeSpawnError(p)
        \/ TranscodeOk(p) \/ TranscodeFail(p) \/ TranscodeHang(p)
        \/ Cleanup(p) \/ CleanupError(p)
        \/ VerifyDuration(p) \/ VerifyCodec(p) \/ DecodeTest(p)
        \/ StatCompressed(p) \/ StatCompressedError(p)
        \/ DiscardTemp(p) \/ DiscardTempError(p)
        \/ SwapUnlink(p) \/ SwapUnlinkError(p)
        \/ SwapRename(p) \/ SwapRenameError(p)
        \/ SwapDeleteCandidate(p) \/ SwapDeleteCandidateError(p)
        \/ SwapNotify(p)
        \/ FinallyUnlock(p) \/ FinallyClose(p) \/ FinallyUnlink(p)
        \/ Terminate(p) \/ Interrupt(p) \/ Kill(p)

SpecRun == InitRun /\ [][NextRun]_vars

\* SpecRun with the scheduler's guarantee: the process keeps taking its own
\* steps while it has one; nothing guarantees a signal or an engine exit
SpecRunFair ==
    SpecRun /\ \A p \in Runner : WF_vars(ProgramStep(p))

\* runs of the one process one after the other, as cron starts them
NextRepeat == NextRun \/ \E p \in Runner : Restart(p)

SpecRepeat == InitRun /\ [][NextRepeat]_vars

Spec == SpecRun

\* C4: at most one process holds the run lock at any time
C4_MutualExclusion ==
    \A p \in Procs : \A q \in Procs : (held[p] /\ held[q]) => p = q

\* ------------------------------------------------------------- properties
\* positions inside process_file
FilePcs == BodyPcs \ {"find", "loop"}
\* positions of main() reached only after flock succeeded
AcquiredPcs == BodyPcs \cup {"stamp", "fin_unlock", "fin_close", "fin_unlink"}

\* process_file of p has returned its stats (line 426 is about to assign)
Returned(p) == pc[p] = "collect"

\* some verifier check did not pass on the compressed file, as the checks
\* are worded in the specification (a check that was never run has not
\* passed)
CheckFailed(l) ==
    \/ l.compressed_duration = None
    \/ l.compressed_duration = 0
    \/ /\ l.original_duration # None
       /\ l.original_duration # 0
       /\ \/ l.compressed_duration - l.original_duration > 5
          \/ l.original_duration - l.compressed_duration > 5
    \/ l.compressed_codec \notin {"hevc", "h265"}
    \/ ~l.result.ran
    \/ l.result.raised
    \/ l.result.rc # 0
    \/ l.result.err

\* the compressed size is known and is more than 0.8 of the original size
RatioAbove(l) ==
    l.compressed_size > 0 /\ 10 * l.compressed_size > 8 * l.original_size

\* C1: the library never loses a file: once the original or a complete
\* compressed replacement (at the library path or at the temporary path)
\* is there, every step, a crash included, leaves one of them there
C1_NoDataLoss ==
    [][\A c \in Cands :
         (lib[c] # "absent" \/ tmp[c] = "comp")
            => (lib'[c] # "absent" \/ tmp'[c] = "comp")]_vars

\* C2: when a verifier check fails, process_file returns with the original
\* untouched and the temporary file gone, and the original is never
\* replaced while a check has not passed
C2_VerifyFailureKeepsOriginal ==
    \A p \in Procs :
        /\ (Returned(p) /\ loc[p].compressed /\ CheckFailed(loc[p]))
              => /\ lib[loc[p].cur] = "orig"
                 /\ tmp[loc[p].cur] = "absent"
        /\ (pc[p] \in FilePcs /\ loc[p].compressed /\ CheckFailed(loc[p]))
              => lib[loc[p].cur] = "orig"

\* C2 witness: process_file returned after the decode test failed
C2_Witness ==
    \E p \in Procs :
        /\ Returned(p) /\ loc[p].compressed /\ CheckFailed(loc[p])
        /\ loc[p].result.ran /\ loc[p].result.err
        /\ loc[p].stats.error = ErrDecode

\* C3: the original is deleted only once the temporary file passed every
\* check and the ratio gate; a run that returns success (outside dry-run)
\* has replaced its library file and a run that returns any other outcome
\* has left it in place
C3_DeleteOnlyOnSuccess ==
    \A p \in Procs :
        /\ (pc[p] \in FilePcs /\ loc[p].media /\ lib[loc[p].cur] # "orig")
              => /\ loc[p].compressed
                 /\ ~CheckFailed(loc[p])
                 /\ loc[p].compressed_size > 0
                 /\ ~RatioAbove(loc[p])
        /\ (Returned(p) /\ loc[p].stats.success /\ ~dry_run)
              => lib[loc[p].cur] = "comp"
        /\ (Returned(p) /\ loc[p].media /\ ~loc[p].stats.success)
              => lib[loc[p].cur] = "orig"

\* C5: every way out of main() after the lock was acquired leaves the lock
\* file removed, and the ended process holds no lock
C5_ReleasedOnEveryExit ==
    [][\A p \in Procs :
         /\ (pc[p] \in AcquiredPcs /\ pc'[p] = "toplevel") => lockPath' = 0
         /\ pc'[p] = "exited" => (~held'[p] /\ fd'[p] = 0)]_vars

\* C6: a run that finds the lock held has enumerated nothing, invoked no
\* engine, and has left the holder's lock and the pid the holder wrote in
\* the lock file as they were
C6_SecondRunTouchesNothing ==
    \A q \in Procs : \A h \in Procs :
        (pc[q] = "lockheld" /\ h # q /\ held[h] /\ fd[h] = fd[q]
            /\ pc[h] \in BodyPcs)
        => /\ lockText[fd[h]] = h
           /\ lockPath = fd[h]
           /\ videos[q] = <<>> /\ results[q] = <<>> /\ calls[q] = <<>>

\* C7: a run that is not interrupted leaves its loop with one
\* OutcomeRecord for each candidate it found
C7_EveryCandidateRecorded ==
    \A p \in Procs :
        (pc[p] \in {"fin_unlock", "fin_close", "fin_unlink", "toplevel"}
            /\ pending[p] \in {"none", "exc"})
        => Len(results[p]) = Len(videos[p])

\* C8: when the swap fails after the original was deleted, process_file
\* returns the failure and the temporary file is still there
C8_RenameFailureKeepsTemp ==
    \A p \in Procs :
        (Returned(p) /\ loc[p].stats.error = ErrReplace
            /\ lib[loc[p].cur] = "absent")
        => (~loc[p].stats.success /\ tmp[loc[p].cur] = "comp")

\* the hypotheses of the successful path
SuccessCase(p) ==
    /\ Returned(p) /\ loc[p].media /\ ~dry_run
    /\ loc[p].video_codec \notin {"hevc", "h265"}
    /\ loc[p].compressed /\ ~CheckFailed(loc[p])
    /\ loc[p].compressed_size > 0 /\ ~RatioAbove(loc[p])

\* the effects of the successful path
SuccessEffects(p) ==
    /\ loc[p].stats.success
    /\ loc[p].stats.space_saved_gb
          = loc[p].original_size - loc[p].compressed_size
    /\ lib[loc[p].cur] = "comp"
    /\ tmp[loc[p].cur] = "absent"
    /\ ~dl[loc[p].cur]

Invoked(p) == {calls[p][i] : i \in 1..Len(calls[p])}

\* the invocations that transcode or verify, as opposed to probing the
\* library file
WorkCalls == {"transcode", "duration:temp", "codec:temp", "decode:temp"}

\* C11: in dry-run mode a matched file that is not in the target codec
\* returns with no transcoding or verifying invocation made, the original,
\* the temporary path and the intake file as they were, and a made-up
\* successful outcome whose compressed size and saving are each half of
\* the original size
C11_DryRunOutcome ==
    \A p \in Procs :
        (Returned(p) /\ dry_run /\ loc[p].media
            /\ loc[p].video_codec \notin {"hevc", "h265"})
          => /\ Invoked(p) \cap WorkCalls = {}
             /\ lib[loc[p].cur] = "orig"
             /\ tmp[loc[p].cur] = "absent"
             /\ dl[loc[p].cur]
             /\ loc[p].stats.success
             /\ loc[p].stats.error = ErrNone
             /\ 2 * loc[p].stats.compressed_size_gb = loc[p].original_size
             /\ 2 * loc[p].stats.space_saved_gb = loc[p].original_size

\* C11 witness: a dry run returned 5 and 5 for an H.264 original of 10
C11_Witness ==
    \E p \in Procs :
        /\ Returned(p) /\ dry_run /\ loc[p].media
        /\ loc[p].video_codec = "h264"
        /\ loc[p].original_size = 10
        /\ loc[p].stats.compressed_size_gb = 5
        /\ loc[p].stats.space_saved_gb = 5

\* what an unmatched candidate leaves behind, but for the error text:
\* no success, no engine invocation, nothing under the library or the
\* temporary path, the candidate still in the intake area
UnmatchedEffects(p) ==
    /\ ~loc[p].stats.success
    /\ calls[p] = <<>>
    /\ lib[loc[p].cur] = "absent"
    /\ tmp[loc[p].cur] = "absent"
    /\ dl[loc[p].cur]

TargetAnyCase(codec) == codec \in {"hevc", "h265", "HEVC", "H265"}

\* C13: a matched file whose probed codec is hevc or h265 in any letter
\* case returns straight from the codec check as a failure "Already
\* HEVC", having invoked nothing but that one probe, and no step of a
\* per-file run up to and including the codec check changes the library,
\* the temporary path or the intake area; this holds in every run of a
\* succession of runs, so such files are never swapped
C13_AlreadyTargetSkipped ==
    [][\A p \in Procs :
          /\ (pc[p] \in {"match", "stat", "codec"} /\ pc'[p] # pc[p])
                => (lib' = lib /\ tmp' = tmp /\ dl' = dl)
          /\ (pc[p] # "collect" /\ pc'[p] = "collect"
                 /\ TargetAnyCase(loc'[p].video_codec))
                => /\ pc[p] = "codec"
                   /\ calls'[p] = <<"codec:media">>
                   /\ ~loc'[p].stats.success
                   /\ loc'[p].stats.error = ErrAlready
      ]_vars

\* C13 witness: a later run meets the file an earlier run compressed,
\* probes it as HEVC and returns without touching it
C13_Witness ==
    \E p \in Procs :
        /\ Returned(p)
        /\ loc[p].video_codec = "hevc"
        /\ loc[p].stats.error = ErrAlready
        /\ lib[loc[p].cur] = "comp"
        /\ dl[loc[p].cur]

\* the summary code of main (lines 433-465) has run to its end
SummaryDone(p) ==
    /\ pc[p] \in {"fin_unlock", "fin_close", "fin_unlink", "toplevel"}
    /\ pending[p] = "none"
    /\ videos[p] # <<>>
    /\ Len(results[p]) = Len(videos[p])

\* C14: a run that took the lock, found at least one candidate and
\* finished its loop has sent a summary notification by the time its
\* summary code is done, whatever the number of successes, zero included
C14_SummaryAlwaysNotified ==
    \A p \in Procs :
        SummaryDone(p)
          => \E i \in 1..Len(notes[p]) : notes[p][i] = "summary"

\* C15: when the transcoding engine never exits, compress_video still
\* returns failure in the end: the per-file run comes back with
\* "Compression failed", the partial temporary file deleted and the
\* original untouched, unless the process is interrupted or killed first
C15_TranscodeBounded ==
    \A p \in Runner :
        (pc[p] = "hung")
          ~> \/ /\ Returned(p)
                /\ loc[p].stats.error = ErrCompress
                /\ tmp[loc[p].cur] = "absent"
                /\ lib[loc[p].cur] = "orig"
             \/ pending[p] = "int"
             \/ pc[p] = "killed"

\* the two exits the specification gives code 0: the run body came to
\* its end or returned early, or the lock was held by another process
NormalCompletion(p) == pc[p] = "toplevel" /\ pending[p] \in {"none", "return"}
LockHeldSkip(p) == pc[p] = "lockheld" /\ \E q \in Procs \ {p} : held[q]

\* C16: a process that exits after an exception escaped the run body has
\* released the lock, sends exactly one error notification and exits with
\* code 1; one that exits after an interrupt exits with code 1 and no
\* longer holds the lock; an exit with code 0 is a normal completion or a
\* skip because another process holds the lock
C16_ExitCodes ==
    [][\A p \in Procs :
          (pc[p] # "exited" /\ pc'[p] = "exited")
            => /\ pending[p] = "exc"
                    => /\ ~held[p] /\ fd[p] = 0
                       /\ notes'[p] = Append(notes[p], "fatal")
                       /\ exitCode'[p] = 1
               /\ pending[p] = "int"
                    => /\ ~held'[p]
                       /\ notes'[p] = notes[p]
                       /\ exitCode'[p] = 1
               /\ exitCode'[p] = 0
                    => (NormalCompletion(p) \/ LockHeldSkip(p))
      ]_vars

\* the verifier's engine invocations of a per-file run, in order
VerifierCalls(p) ==
    SelectSeq(calls[p],
              LAMBDA c : c \in {"duration:temp", "codec:temp", "decode:temp"})

\* the order of the checks: duration (decodable and duration-match),
\* codec, decode sample
VerifierOrder == <<"duration:temp", "codec:temp", "decode:temp">>

\* the original's duration was determined
DurationKnown(l) == l.original_duration # None /\ l.original_duration # 0

\* C17: the verifier invokes the engine in the order duration, codec,
\* decode sample and stops at the first failed check; it goes on to the
\* codec check only with a compressed duration that is present and
\* strictly positive and, when the original duration is known, within 5
\* seconds of it, and on to the decode sample only with a target codec;
\* it reports no duration only without such a duration, and a mismatch
\* only when the durations differ by more than 5 seconds
C17_VerifierOrder ==
    \A p \in Procs :
        /\ VerifierCalls(p) = SubSeq(VerifierOrder, 1, Len(VerifierCalls(p)))
        /\ "codec:temp" \in Invoked(p)
              => /\ loc[p].compressed_duration # None
                 /\ loc[p].compressed_duration > 0
                 /\ DurationKnown(loc[p])
                      => Abs(loc[p].compressed_duration
                               - loc[p].original_duration) <= DurationTolerance
        /\ "decode:temp" \in Invoked(p)
              => loc[p].compressed_codec \in {"hevc", "h265"}
        /\ (Returned(p) /\ loc[p].stats.error = ErrNoDuration)
              => /\ VerifierCalls(p) = <<"duration:temp">>
                 /\ (loc[p].compressed_duration = None
                        \/ loc[p].compressed_duration <= 0)
        /\ (Returned(p) /\ loc[p].stats.error = ErrMismatch)
              => /\ VerifierCalls(p) = <<"duration:temp">>
                 /\ DurationKnown(loc[p])
                 /\ Abs(loc[p].compressed_duration
                          - loc[p].original_duration) > DurationTolerance
        /\ (Returned(p) /\ loc[p].stats.error = ErrCodec)
              => VerifierCalls(p) = <<"duration:temp", "codec:temp">>

\* C18: a dry run that returns its made-up outcome has invoked the
\* engine for the codec probe of the matched file and for nothing after
\* it: no duration probe, no transcode, no decode test
C18_DryRunStopsAfterCodec ==
    \A p \in Procs :
        (Returned(p) /\ dry_run /\ loc[p].stats.success)
          => calls[p] = <<"codec:media">>

\* the rename of the temporary file failed after the original was
\* deleted: the one way a per-file run leaves the original's path empty
RenameFault(p) == loc[p].media /\ lib[loc[p].cur] = "absent"

\* C19: a per-file run on a matched file that returns success == false
\* for any reason other than a failed rename leaves the original at its
\* path with the content it had before the run
C19_FailureMeansUntouched ==
    \A p \in Procs :
        (Returned(p) /\ loc[p].media /\ ~loc[p].stats.success
            /\ ~RenameFault(p))
          => lib[loc[p].cur] = "orig"

\* C20: a step deletes an intake file only as the step of a per-file run
\* on that file that follows the rename, with the compressed file at the
\* original's path and the temporary path empty, and it deletes no other
\* intake file; a per-file run that returns anything but a real success
\* returns with its candidate still in the intake area
C20_CandidateDeletedAfterRename ==
    [][/\ \A c \in Cands :
            (dl[c] /\ ~dl'[c])
              => /\ \E p \in Procs : /\ pc[p] = "swap_dl"
                                      /\ loc[p].cur = c
                 /\ lib[c] = "comp" /\ tmp[c] = "absent"
                 /\ \A d \in Cands \ {c} : dl'[d] = dl[d]
        /\ \A p \in Procs :
            (pc'[p] = "collect"
                /\ ~(loc'[p].stats.success /\ ~dry_run))
              => dl'[loc'[p].cur]
      ]_vars

\* C20 witness: the candidate is gone, the compressed file is in place
\* and the per-file run has not yet returned
C20_Witness ==
    \E p \in Procs :
        /\ pc[p] = "swap_notify"
        /\ ~dl[loc[p].cur]
        /\ lib[loc[p].cur] = "comp"
        /\ tmp[loc[p].cur] = "absent"

====
